---- MODULE Spec2Model ----
(***************************************************************************)
(* Model of the FAISS-backed document store of services/vector_service.py: *)
(* VectorService (text normalisation, chunking, add / search / delete /    *)
(* rebuild / clear, three-file persistence) and the DocumentManager facade.*)
(*                                                                         *)
(* Texts are sequences of one-character strings.  Python dicts keep their  *)
(* insertion order, which _find_doc_by_index and rebuild_index depend on,  *)
(* so a dict is a sequence of [k, v] entries.                              *)
(***************************************************************************)
EXTENDS Integers, Sequences, FiniteSets, TLC

----------------------------------------------------------------------------
(* Sequence helpers                                                        *)

Range(s) == { s[i] : i \in 1..Len(s) }

Min(a, b) == IF a < b THEN a ELSE b

RECURSIVE SumSeq(_)
SumSeq(s) == IF s = <<>> THEN 0 ELSE s[1] + SumSeq(Tail(s))

----------------------------------------------------------------------------
(* Character classes of the regular expressions of _preprocess_text, on    *)
(* the characters the model's texts are written with.                      *)

Letters == {"a", "b", "h", "t", "p", "s", "c", "o"}

\* \s
WhiteSpace == {" ", "\n", "\t"}

\* \w, for the \b anchors
IsWordChar(c) == c \in Letters

\* [a-zA-Z] | [0-9] | [$-_@.&+] | [!*\(\),] : "$-_" is the range 0x24..0x5F
IsUrlChar(c) == c \in Letters \cup {":", "/", ".", "@", "-", "%", "+", "&", ",", "!", "*", "(", ")"}

\* [A-Za-z0-9._%+-]
IsLocalChar(c) == c \in Letters \cup {".", "%", "+", "-"}

\* [A-Za-z0-9.-]
IsDomainChar(c) == c \in Letters \cup {".", "-"}

\* [A-Z|a-z]
IsTldChar(c) == c \in Letters \cup {"|"}

----------------------------------------------------------------------------
(* str.strip() and re.sub(r'\s+', ' ', text)                               *)

\* from the first character that is not white space
LStrip(s) ==
    IF \A i \in 1..Len(s) : s[i] \in WhiteSpace THEN <<>>
    ELSE SubSeq(s, CHOOSE i \in 1..Len(s) :
                      s[i] \notin WhiteSpace /\ \A j \in 1..(i - 1) : s[j] \in WhiteSpace,
                Len(s))

\* up to the last character that is not white space
RStrip(s) ==
    IF \A i \in 1..Len(s) : s[i] \in WhiteSpace THEN <<>>
    ELSE SubSeq(s, 1, CHOOSE i \in 1..Len(s) :
                         s[i] \notin WhiteSpace
                            /\ \A j \in (i + 1)..Len(s) : s[j] \in WhiteSpace)

Strip(s) == RStrip(LStrip(s))

\* every run of white space becomes one space: its first character is
\* replaced, the others are dropped
CollapseWhitespace(s) ==
    LET marked == [i \in 1..Len(s) |->
                     IF s[i] \notin WhiteSpace THEN s[i]
                     ELSE IF i > 1 /\ s[i - 1] \in WhiteSpace THEN "" ELSE " "]
    IN SelectSeq(marked, LAMBDA c : c # "")

----------------------------------------------------------------------------
(* re.sub of the URL pattern.  A match at position i is "http", an         *)
(* optional "s", "://" and the longest non-empty run of URL characters;    *)
(* UrlMatchEnd is the position after the match, 0 when there is none.      *)

HasAt(s, i, lit) ==
    /\ i + Len(lit) - 1 <= Len(s)
    /\ \A j \in 1..Len(lit) : s[i + j - 1] = lit[j]

\* first position >= i holding no character of the class, Len(s)+1 if none
RunEnd(s, i, inClass) ==
    LET stops == { j \in i..Len(s) : ~inClass[s[j]] }
    IN IF i > Len(s) THEN i
       ELSE IF stops = {} THEN Len(s) + 1
       ELSE CHOOSE j \in stops : \A k \in stops : j <= k

ClassOf(s, P(_)) == [c \in Range(s) |-> P(c)]

UrlBodyStart(s, i) ==
    IF HasAt(s, i, <<"h", "t", "t", "p", "s", ":", "/", "/">>) THEN i + 8
    ELSE IF HasAt(s, i, <<"h", "t", "t", "p", ":", "/", "/">>) THEN i + 7
    ELSE 0

UrlMatchEnd(s, i) ==
    LET b == UrlBodyStart(s, i)
        e == RunEnd(s, b, ClassOf(s, IsUrlChar))
    IN IF b = 0 THEN 0 ELSE IF e > b THEN e ELSE 0

\* the text from position i on without the matches, found left to right
RECURSIVE RemoveUrlsFrom(_, _)
RemoveUrlsFrom(s, i) ==
    LET starts == { j \in i..Len(s) : UrlMatchEnd(s, j) > 0 }
    IN IF starts = {} THEN SubSeq(s, i, Len(s))
       ELSE LET b == CHOOSE j \in starts : \A k \in starts : j <= k
            IN SubSeq(s, i, b - 1) \o RemoveUrlsFrom(s, UrlMatchEnd(s, b))

RemoveUrls(s) == RemoveUrlsFrom(s, 1)

----------------------------------------------------------------------------
(* re.sub of the e-mail pattern                                            *)
(*   \b[A-Za-z0-9._%+-]+@[A-Za-z0-9.-]+\.[A-Z|a-z]{2,}\b                   *)
(* The local part is the whole run up to the "@"; the domain and the       *)
(* top-level part are greedy and backtrack, so the match chosen is the one *)
(* with the longest domain and then the longest top-level part.            *)

\* \b between positions i-1 and i
WordBoundary(s, i) ==
    LET before == i > 1 /\ i - 1 <= Len(s) /\ IsWordChar(s[i - 1])
        after  == i >= 1 /\ i <= Len(s) /\ IsWordChar(s[i])
    IN before # after

\* the <<dot, end>> pairs of the matches starting at i
EmailMatches(s, i) ==
    LET at == RunEnd(s, i, ClassOf(s, IsLocalChar))
        de == RunEnd(s, at + 1, ClassOf(s, IsDomainChar))
    IN IF ~(WordBoundary(s, i) /\ at > i /\ at <= Len(s) /\ s[at] = "@")
       THEN {}
       ELSE { p \in ((at + 2)..(de - 1)) \X ((at + 5)..(Len(s) + 1)) :
                /\ s[p[1]] = "."
                /\ p[2] >= p[1] + 3
                /\ \A j \in (p[1] + 1)..(p[2] - 1) : IsTldChar(s[j])
                /\ WordBoundary(s, p[2]) }

EmailMatchEnd(s, i) ==
    LET ms == EmailMatches(s, i)
    IN IF ms = {} THEN 0
       ELSE LET best == CHOOSE p \in ms :
                          \A q \in ms : q[1] < p[1] \/ (q[1] = p[1] /\ q[2] <= p[2])
            IN best[2]

RECURSIVE RemoveEmailsFrom(_, _)
RemoveEmailsFrom(s, i) ==
    LET starts == { j \in i..Len(s) : EmailMatchEnd(s, j) > 0 }
    IN IF starts = {} THEN SubSeq(s, i, Len(s))
       ELSE LET b == CHOOSE j \in starts : \A k \in starts : j <= k
            IN SubSeq(s, i, b - 1) \o RemoveEmailsFrom(s, EmailMatchEnd(s, b))

RemoveEmails(s) == RemoveEmailsFrom(s, 1)

\* VectorService._preprocess_text
PreprocessText(text) == Strip(RemoveEmails(RemoveUrls(CollapseWhitespace(text))))

----------------------------------------------------------------------------
(* VectorService._split_text                                               *)

\* str.split('\n')
RECURSIVE SplitParagraphs(_)
SplitParagraphs(s) ==
    IF \A i \in 1..Len(s) : s[i] # "\n" THEN <<s>>
    ELSE LET n == CHOOSE i \in 1..Len(s) :
                    s[i] = "\n" /\ \A j \in 1..(i - 1) : s[j] # "\n"
         IN <<SubSeq(s, 1, n - 1)>> \o SplitParagraphs(SubSeq(s, n + 1, Len(s)))

\* current_chunk[-overlap*4:] if len(current_chunk) > overlap*4 else current_chunk
\* (a slice from -0 is the whole string)
OverlapText(current_chunk, overlap) ==
    IF Len(current_chunk) > overlap * 4 /\ overlap > 0
    THEN SubSeq(current_chunk, Len(current_chunk) - overlap * 4 + 1, Len(current_chunk))
    ELSE current_chunk

\* the loop over the paragraphs and the flush after it; len(..) / 4 > max_tokens
\* is a float comparison, so it is len(..) > 4 * max_tokens
RECURSIVE SplitLoop(_, _, _, _, _)
SplitLoop(paragraphs, chunks, current_chunk, max_tokens, overlap) ==
    IF paragraphs = <<>>
    THEN IF current_chunk # <<>> THEN Append(chunks, Strip(current_chunk)) ELSE chunks
    ELSE LET paragraph == Strip(paragraphs[1])
             rest == Tail(paragraphs)
         IN IF paragraph = <<>>
            THEN SplitLoop(rest, chunks, current_chunk, max_tokens, overlap)
            ELSE IF Len(current_chunk) + Len(paragraph) > 4 * max_tokens
            THEN IF current_chunk # <<>>
                 THEN SplitLoop(rest, Append(chunks, Strip(current_chunk)),
                                OverlapText(current_chunk, overlap) \o <<"\n">> \o paragraph,
                                max_tokens, overlap)
                 ELSE SplitLoop(rest, chunks, paragraph, max_tokens, overlap)
            ELSE SplitLoop(rest, chunks,
                           IF current_chunk # <<>>
                           THEN current_chunk \o <<"\n">> \o paragraph
                           ELSE paragraph,
                           max_tokens, overlap)

SplitText(text, max_tokens, overlap) ==
    SplitLoop(SplitParagraphs(text), <<>>, <<>>, max_tokens, overlap)

\* the defaults of _split_text, which add_document relies on
DefaultMaxTokens == 512
DefaultOverlap == 50

----------------------------------------------------------------------------
(* Python dicts: insertion-ordered sequences of [k, v] entries             *)

DictKeys(d) == { d[i].k : i \in 1..Len(d) }

DictHas(d, key) == key \in DictKeys(d)

DictGet(d, key) == d[CHOOSE i \in 1..Len(d) : d[i].k = key].v

\* d[key] = value: a new key goes to the end, a known key keeps its place
DictSet(d, key, value) ==
    IF DictHas(d, key)
    THEN [i \in 1..Len(d) |-> IF d[i].k = key THEN [k |-> key, v |-> value] ELSE d[i]]
    ELSE Append(d, [k |-> key, v |-> value])

----------------------------------------------------------------------------
(* The embedder (SentenceTransformer.encode) and the FAISS flat index.     *)
(* The embedder is an external, deterministic map from a text to a vector; *)
(* here the vector counts the letters "a" and "b" of the text.             *)

CountChar(s, c) == Len(SelectSeq(s, LAMBDA x : x = c))

Embed(text) == <<CountChar(text, "a"), CountChar(text, "b")>>

EncodeChunks(chunks) == [i \in 1..Len(chunks) |-> Embed(chunks[i])]

\* faiss.IndexFlatIP(vector_dim) / faiss.IndexFlatL2(vector_dim), empty
NewIndex(kind) == [kind |-> kind, vectors |-> <<>>]

\* index.ntotal
NTotal(index) == Len(index.vectors)

\* index.add(vectors)
IndexAdd(index, vectors) == [index EXCEPT !.vectors = @ \o vectors]

InnerProduct(u, v) == u[1] * v[1] + u[2] * v[2]

SquaredL2(u, v) == (u[1] - v[1]) * (u[1] - v[1]) + (u[2] - v[2]) * (u[2] - v[2])

\* the value FAISS reports for a stored vector: the inner product for
\* IndexFlatIP, the squared distance for IndexFlatL2
Metric(index, qv, pos) ==
    IF index.kind = "L2" THEN SquaredL2(qv, index.vectors[pos + 1])
    ELSE InnerProduct(qv, index.vectors[pos + 1])

\* position i is reported before position j: larger inner product first
\* (smaller distance first for L2), the lower position on a tie
RanksBefore(index, qv, i, j) ==
    LET mi == Metric(index, qv, i)
        mj == Metric(index, qv, j)
    IN IF mi = mj THEN i < j
       ELSE IF index.kind = "L2" THEN mi < mj ELSE mi > mj

RECURSIVE TopHits(_, _, _, _)
TopHits(index, qv, remaining, n) ==
    IF n = 0 \/ remaining = {} THEN <<>>
    ELSE LET best == CHOOSE i \in remaining :
                        \A j \in remaining \ {i} : RanksBefore(index, qv, i, j)
         IN <<[score |-> Metric(index, qv, best), idx |-> best]>>
            \o TopHits(index, qv, remaining \ {best}, n - 1)

\* index.search(query_vector, n): the n best (score, position) pairs, positions from 0
IndexSearch(index, qv, n) == TopHits(index, qv, 0..(NTotal(index) - 1), n)

----------------------------------------------------------------------------
(* The in-memory state of one VectorService instance: index, metadata and  *)
(* documents.  self.id_to_index is written by add_document and             *)
(* rebuild_index and read by nothing, so it is left out.                   *)

NoDoc == "none"
NoTime == 0

EmptyMem ==
    [index |-> NewIndex("IP"), metadata |-> <<>>, documents |-> <<>>]

\* metadata.get("deleted", False)
IsDeleted(m, doc_id) ==
    DictHas(m.metadata, doc_id) /\ DictGet(m.metadata, doc_id).deleted

\* VectorService._find_doc_by_index
FindDocByIndex(m, idx) ==
    LET hit(i) == m.metadata[i].v.start_index <= idx /\ idx <= m.metadata[i].v.end_index
    IN IF \E i \in 1..Len(m.metadata) : hit(i)
       THEN m.metadata[CHOOSE i \in 1..Len(m.metadata) :
                          hit(i) /\ \A j \in 1..(i - 1) : ~hit(j)].k
       ELSE NoDoc

\* VectorService._get_chunk_content
GetChunkContent(m, doc_id, idx) ==
    LET chunks == IF DictHas(m.documents, doc_id)
                  THEN DictGet(m.documents, doc_id).chunks ELSE <<>>
        start_idx == IF DictHas(m.metadata, doc_id)
                     THEN DictGet(m.metadata, doc_id).start_index ELSE 0
        chunk_idx == idx - start_idx
    IN IF 0 <= chunk_idx /\ chunk_idx < Len(chunks) THEN chunks[chunk_idx + 1] ELSE <<>>

\* the result dict search_similar builds for one hit
SearchResult(m, doc_id, hit) ==
    [doc_id    |-> doc_id,
     score     |-> hit.score,
     content   |-> IF DictHas(m.documents, doc_id)
                   THEN DictGet(m.documents, doc_id).text ELSE <<>>,
     metadata  |-> DictGet(m.metadata, doc_id),
     chunk_hit |-> GetChunkContent(m, doc_id, hit.idx)]

\* a slip: the loop without its seen_docs check
RECURSIVE WalkHitsNoDedup(_, _, _, _, _, _)
WalkHitsNoDedup(m, hits, results, seen_docs, k, score_threshold) ==
    IF hits = <<>> THEN results
    ELSE LET hit == hits[1]
             doc_id == FindDocByIndex(m, hit.idx)
         IN IF hit.score >= score_threshold /\ doc_id # NoDoc
            THEN LET r == Append(results, SearchResult(m, doc_id, hit))
                 IN IF Len(r) >= k THEN r
                    ELSE WalkHitsNoDedup(m, Tail(hits), r, seen_docs, k, score_threshold)
            ELSE WalkHitsNoDedup(m, Tail(hits), results, seen_docs, k, score_threshold)

\* a slip: a hit that resolves to no document ends the search with nothing
RECURSIVE WalkHitsFailingOnOrphan(_, _, _, _, _, _)
WalkHitsFailingOnOrphan(m, hits, results, seen_docs, k, score_threshold) ==
    IF hits = <<>> THEN results
    ELSE LET hit == hits[1]
             doc_id == FindDocByIndex(m, hit.idx)
         IN IF hit.score < score_threshold
            THEN WalkHitsFailingOnOrphan(m, Tail(hits), results, seen_docs, k,
                                         score_threshold)
            ELSE IF doc_id = NoDoc THEN <<>>
            ELSE IF doc_id \notin seen_docs
            THEN LET r == Append(results, SearchResult(m, doc_id, hit))
                 IN IF Len(r) >= k THEN r
                    ELSE WalkHitsFailingOnOrphan(m, Tail(hits), r,
                                                 seen_docs \cup {doc_id}, k,
                                                 score_threshold)
            ELSE WalkHitsFailingOnOrphan(m, Tail(hits), results, seen_docs, k,
                                         score_threshold)

\* the loop of search_similar over zip(scores[0], indices[0])
RECURSIVE WalkHits(_, _, _, _, _, _)
WalkHits(m, hits, results, seen_docs, k, score_threshold) ==
    IF hits = <<>> THEN results
    ELSE LET hit == hits[1]
             doc_id == FindDocByIndex(m, hit.idx)
         IN IF hit.score < score_threshold
            THEN WalkHits(m, Tail(hits), results, seen_docs, k, score_threshold)
            ELSE IF doc_id # NoDoc /\ doc_id \notin seen_docs
            THEN LET r == Append(results, SearchResult(m, doc_id, hit))
                 IN IF Len(r) >= k THEN r
                    ELSE WalkHits(m, Tail(hits), r, seen_docs \cup {doc_id},
                                  k, score_threshold)
            ELSE WalkHits(m, Tail(hits), results, seen_docs, k, score_threshold)

\* VectorService.search_similar; embedOK is whether encode([query]) returns.
\* An exception anywhere gives the empty list.
SearchSimilar(m, query, k, score_threshold, embedOK) ==
    IF NTotal(m.index) = 0 THEN <<>>
    ELSE IF ~embedOK THEN <<>>
    ELSE WalkHits(m, IndexSearch(m.index, Embed(query), Min(k * 2, NTotal(m.index))),
                  <<>>, {}, k, score_threshold)

\* a slip: a tombstoned document reported as absent
GetDocumentHidingDeleted(m, doc_id) ==
    IF ~DictHas(m.documents, doc_id) \/ IsDeleted(m, doc_id) THEN [found |-> FALSE]
    ELSE [found    |-> TRUE,
          doc_id   |-> doc_id,
          content  |-> DictGet(m.documents, doc_id).text,
          metadata |-> <<DictGet(m.metadata, doc_id)>>,
          chunks   |-> DictGet(m.documents, doc_id).chunks]

\* VectorService.get_document; NoDoc stands for None
GetDocument(m, doc_id) ==
    IF ~DictHas(m.documents, doc_id) THEN [found |-> FALSE]
    ELSE [found    |-> TRUE,
          doc_id   |-> doc_id,
          content  |-> DictGet(m.documents, doc_id).text,
          metadata |-> IF DictHas(m.metadata, doc_id)
                       THEN <<DictGet(m.metadata, doc_id)>> ELSE <<>>,
          chunks   |-> DictGet(m.documents, doc_id).chunks]

----------------------------------------------------------------------------
(* add_document, delete_document, rebuild_index, clear_all as functions of *)
(* the instance state.  Each gives the new state, the value returned and   *)
(* whether the call reaches _save_index.                                   *)

\* add_document, lines 153-172: the entries of self.documents and self.metadata
\* for a document whose vectors start at start_index.  doc_metadata.update(...)
\* overwrites the store's own keys in the caller's dict; attrs is the caller's
\* dict outside those keys, the other fields are the keys update() writes.
StoreDocumentAt(m, doc_id, text, attrs, now_, processed_text, chunks, start_index) ==
    LET doc_metadata == [attrs       |-> attrs,
                         doc_id      |-> doc_id,
                         chunk_count |-> Len(chunks),
                         start_index |-> start_index,
                         end_index   |-> start_index + Len(chunks) - 1,
                         created_at  |-> now_,
                         deleted     |-> FALSE,
                         deleted_at  |-> NoTime]
    IN [index     |-> IndexAdd(m.index, EncodeChunks(chunks)),
        documents |-> DictSet(m.documents, doc_id,
                              [text           |-> text,
                               processed_text |-> processed_text,
                               chunks         |-> chunks,
                               chunk_count    |-> Len(chunks)]),
        metadata  |-> DictSet(m.metadata, doc_id, doc_metadata)]

\* a slip: positions handed out again from 0
StoreDocumentFromZero(m, doc_id, text, attrs, now_, processed_text, chunks) ==
    StoreDocumentAt(m, doc_id, text, attrs, now_, processed_text, chunks, 0)

\* a slip: the start position taken from the number of documents
StoreDocumentCountingDocs(m, doc_id, text, attrs, now_, processed_text, chunks) ==
    StoreDocumentAt(m, doc_id, text, attrs, now_, processed_text, chunks,
                    Len(m.metadata))

\* a slip: the normalised text stored as the document's text
StoreDocumentNormalised(m, doc_id, text, attrs, now_, processed_text, chunks) ==
    StoreDocumentAt(m, doc_id, processed_text, attrs, now_, processed_text, chunks,
                    NTotal(m.index))

\* add_document, lines 149-172: start_index = self.index.ntotal, the vectors of
\* the chunks go to the end of the index, documents and metadata get their entry
StoreDocument(m, doc_id, text, attrs, now_, processed_text, chunks) ==
    StoreDocumentAt(m, doc_id, text, attrs, now_, processed_text, chunks,
                    NTotal(m.index))

\* a slip: the document registered before its chunks are embedded
InsertDocumentStoringFirst(m, doc_id, text, attrs, now_, embedOK, processed_text, chunks) ==
    IF ~embedOK \/ chunks = <<>>
    THEN [mem |-> [m EXCEPT !.documents =
                      DictSet(@, doc_id, [text |-> text, processed_text |-> processed_text,
                                          chunks |-> chunks, chunk_count |-> Len(chunks)])],
          ret |-> FALSE, save |-> FALSE, clock |-> FALSE]
    ELSE [mem |-> StoreDocument(m, doc_id, text, attrs, now_, processed_text, chunks),
          ret |-> TRUE, save |-> TRUE, clock |-> TRUE]

\* add_document after the existence check: preprocess, split, encode, store.
\* embedOK is whether encode(chunks) returns; encode([]) gives an array without
\* a second dimension, which index.add rejects.
InsertDocument(m, doc_id, text, attrs, now_, embedOK, processed_text, chunks) ==
    IF ~embedOK \/ chunks = <<>>
    THEN [mem |-> m, ret |-> FALSE, save |-> FALSE, clock |-> FALSE]
    ELSE [mem |-> StoreDocument(m, doc_id, text, attrs, now_, processed_text, chunks),
          ret |-> TRUE, save |-> TRUE, clock |-> TRUE]

\* a slip: add_document without its existence check
AddDocumentNoCheck(m, doc_id, text, attrs, now_, embedOK) ==
    InsertDocument(m, doc_id, text, attrs, now_, embedOK, PreprocessText(text),
                   SplitText(PreprocessText(text), DefaultMaxTokens, DefaultOverlap))

\* a slip: a tombstoned id taken for a free one and inserted again
AddDocumentReplacingDeleted(m, doc_id, text, attrs, now_, embedOK) ==
    IF DictHas(m.documents, doc_id) /\ ~IsDeleted(m, doc_id)
    THEN [mem |-> m, ret |-> TRUE, save |-> FALSE, clock |-> FALSE]
    ELSE LET processed_text == PreprocessText(text)
         IN InsertDocument(m, doc_id, text, attrs, now_, embedOK, processed_text,
                           SplitText(processed_text, DefaultMaxTokens, DefaultOverlap))

\* VectorService.add_document: the new state, the value returned, whether the
\* call reaches _save_index and whether it read the clock
AddDocument(m, doc_id, text, attrs, now_, embedOK) ==
    IF DictHas(m.documents, doc_id)
    THEN [mem |-> m, ret |-> TRUE, save |-> FALSE, clock |-> FALSE]
    ELSE LET processed_text == PreprocessText(text)
         IN InsertDocument(m, doc_id, text, attrs, now_, embedOK, processed_text,
                           SplitText(processed_text, DefaultMaxTokens, DefaultOverlap))

\* a slip: the entries dropped instead of flagged
DeleteDocumentDropping(m, doc_id, now_) ==
    IF DictHas(m.documents, doc_id)
    THEN [mem |-> [m EXCEPT
                     !.metadata = SelectSeq(@, LAMBDA e : e.k # doc_id),
                     !.documents = SelectSeq(@, LAMBDA e : e.k # doc_id)],
          ret |-> TRUE, save |-> TRUE, clock |-> TRUE]
    ELSE [mem |-> m, ret |-> FALSE, save |-> FALSE, clock |-> FALSE]

\* VectorService.delete_document
DeleteDocument(m, doc_id, now_) ==
    IF DictHas(m.documents, doc_id)
    THEN IF DictHas(m.metadata, doc_id)
         THEN [mem |-> [m EXCEPT !.metadata =
                          DictSet(@, doc_id, [DictGet(@, doc_id) EXCEPT
                                                !.deleted = TRUE, !.deleted_at = now_])],
               ret |-> TRUE, save |-> TRUE, clock |-> TRUE]
         ELSE [mem |-> m, ret |-> TRUE, save |-> TRUE, clock |-> FALSE]
    ELSE [mem |-> m, ret |-> FALSE, save |-> FALSE, clock |-> FALSE]

\* a slip: the deleted flag not consulted
AllDocIds(m) == [i \in 1..Len(m.documents) |-> m.documents[i].k]

\* the documents rebuild_index keeps, in the order of self.documents
ActiveDocIds(m) ==
    LET live(e) == ~IsDeleted(m, e.k)
        kept == SelectSeq(m.documents, live)
    IN [i \in 1..Len(kept) |-> kept[i].k]

\* The loop of rebuild_index over active_docs.  st holds self.index, self.metadata
\* (whose entries the loop updates in place), self.id_to_index, new_metadata and
\* new_documents; failAt is the position in active_docs of the document whose
\* encode raises (0: none).  The loop stops at the first failure.
RECURSIVE RebuildLoop(_, _, _, _, _)
RebuildLoop(m, active, j, failAt, st) ==
    IF j > Len(active) THEN [st EXCEPT !.ok = TRUE]
    ELSE LET doc_id == active[j]
             doc_data == DictGet(m.documents, doc_id)
             chunks == doc_data.chunks
             start_index == NTotal(st.index)
             metadata == [DictGet(st.metadata, doc_id) EXCEPT
                            !.start_index = start_index,
                            !.end_index = start_index + Len(chunks) - 1,
                            !.deleted = FALSE,
                            !.deleted_at = NoTime]
         IN IF failAt = j \/ chunks = <<>>
            THEN [st EXCEPT !.ok = FALSE]
            ELSE RebuildLoop(m, active, j + 1, failAt,
                    [ok            |-> FALSE,
                     index         |-> IndexAdd(st.index, EncodeChunks(chunks)),
                     metadata      |-> DictSet(st.metadata, doc_id, metadata),
                     new_metadata  |-> DictSet(st.new_metadata, doc_id, metadata),
                     new_documents |-> DictSet(st.new_documents, doc_id, doc_data)])

\* a slip: the fresh index missing, the survivors appended to the old one
RebuildIndexKeepingIndex(m, failAt) ==
    LET active == ActiveDocIds(m)
        st == RebuildLoop(m, active, 1, failAt,
                [ok |-> FALSE, index |-> m.index, metadata |-> m.metadata,
                 new_metadata |-> <<>>, new_documents |-> <<>>])
    IN [mem |-> [index |-> st.index,
                 metadata |-> IF st.ok THEN st.new_metadata ELSE st.metadata,
                 documents |-> IF st.ok THEN st.new_documents ELSE m.documents],
        ret |-> st.ok, save |-> st.ok]

\* VectorService.rebuild_index.  Building active_docs reads self.metadata[doc_id],
\* which raises for a document without a metadata entry, before anything changes.
RebuildIndex(m, failAt) ==
    LET active == ActiveDocIds(m)
        st == RebuildLoop(m, active, 1, failAt,
                [ok |-> FALSE, index |-> NewIndex("IP"), metadata |-> m.metadata,
                 new_metadata |-> <<>>, new_documents |-> <<>>])
    IN IF \E i \in 1..Len(active) : ~DictHas(m.metadata, active[i])
       THEN [mem |-> m, ret |-> FALSE, save |-> FALSE]
       ELSE IF st.ok
       THEN [mem |-> [index |-> st.index, metadata |-> st.new_metadata,
                      documents |-> st.new_documents],
             ret |-> TRUE, save |-> TRUE]
       ELSE [mem |-> [index |-> st.index, metadata |-> st.metadata,
                      documents |-> m.documents],
             ret |-> FALSE, save |-> FALSE]

\* VectorService.clear_all, in memory
ClearAll(m) ==
    [index |-> NewIndex("L2"), metadata |-> <<>>, documents |-> <<>>]

----------------------------------------------------------------------------
(* Persistence: faiss_index.bin, metadata.json, documents.json             *)

AbsentIndexFile == [st |-> "absent", data |-> NewIndex("IP")]
AbsentDictFile == [st |-> "absent", data |-> <<>>]

NoFiles == [index |-> AbsentIndexFile, metadata |-> AbsentDictFile,
            documents |-> AbsentDictFile]

\* what a failed write leaves of a file: a truncated file, or the file as it was
FailedWrite(file, torn) == IF torn THEN [file EXCEPT !.st = "corrupt"] ELSE file

\* VectorService._save_index: the three writes in order.  fault names the write
\* that raises (0: none); the exception is caught and logged, later files are
\* not written.
SaveFiles(m, d, fault, torn) ==
    [index     |-> IF fault = 1 THEN FailedWrite(d.index, torn)
                   ELSE [st |-> "ok", data |-> m.index],
     metadata  |-> IF fault = 1 THEN d.metadata
                   ELSE IF fault = 2 THEN FailedWrite(d.metadata, torn)
                   ELSE [st |-> "ok", data |-> m.metadata],
     documents |-> IF fault \in {1, 2} THEN d.documents
                   ELSE IF fault = 3 THEN FailedWrite(d.documents, torn)
                   ELSE [st |-> "ok", data |-> m.documents]]

\* a slip: documents.json not read back
LoadIndexWithoutDocuments(d) ==
    IF "corrupt" \in {d.index.st, d.metadata.st, d.documents.st}
    THEN EmptyMem
    ELSE [index     |-> IF d.index.st = "ok" THEN d.index.data ELSE NewIndex("IP"),
          metadata  |-> IF d.metadata.st = "ok" THEN d.metadata.data ELSE <<>>,
          documents |-> <<>>]

\* VectorService._load_index.  A file that cannot be read resets everything.
LoadIndex(d) ==
    IF "corrupt" \in {d.index.st, d.metadata.st, d.documents.st}
    THEN EmptyMem
    ELSE [index       |-> IF d.index.st = "ok" THEN d.index.data ELSE NewIndex("IP"),
          metadata    |-> IF d.metadata.st = "ok" THEN d.metadata.data ELSE <<>>,
          documents   |-> IF d.documents.st = "ok" THEN d.documents.data ELSE <<>>]

----------------------------------------------------------------------------
(* The state machine: one VectorService instance, the storage directory    *)
(* and the callers' inputs.                                                *)

\* bounds of the exploration
MaxClock == 3
MaxK == 2

DocIds == {"d1", "d2", "d3"}

\* the documents callers submit: raw text and caller attributes.  The second
\* text is normalised before it is chunked, the third is blank.
Posts ==
    { [text |-> <<"a">>, attrs |-> [post_type |-> "t1"]],
      [text |-> <<"b", "\n", "b">>, attrs |-> [post_type |-> "t2"]],
      [text |-> <<" ">>, attrs |-> [post_type |-> "t1"]] }

Queries == { <<"a">>, <<"b">> }
Ks == 1..MaxK
Thresholds == {0, 1}

\* a storage directory left by an earlier deployment: one document stored as
\* two chunks, positions 0 and 1
SeedFiles ==
    [index     |-> [st |-> "ok",
                    data |-> IndexAdd(NewIndex("IP"), EncodeChunks(<< <<"a">>, <<"b">> >>))],
     metadata  |-> [st |-> "ok",
                    data |-> << [k |-> "d1",
                                 v |-> [attrs |-> [post_type |-> "t1"], doc_id |-> "d1",
                                        chunk_count |-> 2, start_index |-> 0,
                                        end_index |-> 1, created_at |-> 0,
                                        deleted |-> FALSE, deleted_at |-> NoTime]] >>],
     documents |-> [st |-> "ok",
                    data |-> << [k |-> "d1",
                                 v |-> [text |-> <<"a", "\n", "b">>,
                                        processed_text |-> <<"a", "\n", "b">>,
                                        chunks |-> << <<"a">>, <<"b">> >>,
                                        chunk_count |-> 2]] >>]]

VARIABLES
    mem,     \* the instance: index, metadata, documents
    disk,    \* the three files of vector_storage/
    now,     \* the clock datetime.now() reads
    last     \* the last call and what it returned

vars == <<mem, disk, now, last>>

\* op: the call; doc_id: its document; ret: the value returned; results: the list
\* search_similar returned; saved: the call wrote all three files; before: the
\* index size the call started from; again: a rebuild_index that directly follows
\* a successful rebuild_index
Call(op, doc_id, ret, results, saved) ==
    [op |-> op, doc_id |-> doc_id, ret |-> ret, results |-> results, saved |-> saved,
     before |-> NTotal(mem.index),
     again |-> op = "rebuild" /\ last.op = "rebuild" /\ last.ret]

\* how a call to _save_index ends: <<the write that fails, what it leaves>>.
\* Under Spec the storage directory is writable and every write succeeds.
WritesSucceed == { <<0, FALSE>> }

\* the tail of a mutating call: _save_index if the call reaches it
Persist(m, reached, outcome) ==
    disk' = IF reached THEN SaveFiles(m, disk, outcome[1], outcome[2]) ELSE disk

Init ==
    /\ disk \in {NoFiles, SeedFiles}
    /\ mem = LoadIndex(disk)
    /\ now = 1
    /\ last = [op |-> "init", doc_id |-> NoDoc, ret |-> TRUE, results |-> <<>>,
               saved |-> FALSE, before |-> 0, again |-> FALSE]

\* add_document(doc_id, text, metadata), also through DocumentManager.add_document
Add(doc_id, text, attrs, embedOK, outcome) ==
    \E r \in {AddDocument(mem, doc_id, text, attrs, now, embedOK)} :
       /\ r.clock => now < MaxClock
       /\ ~r.save => outcome[1] = 0
       /\ mem' = r.mem
       /\ Persist(r.mem, r.save, outcome)
       /\ now' = IF r.clock THEN now + 1 ELSE now
       /\ last' = Call("add", doc_id, r.ret, <<>>, r.save /\ outcome[1] = 0)

\* delete_document(doc_id), also through DocumentManager.remove_document
Delete(doc_id, outcome) ==
    \E r \in {DeleteDocument(mem, doc_id, now)} :
       /\ r.clock => now < MaxClock
       /\ ~r.save => outcome[1] = 0
       /\ mem' = r.mem
       /\ Persist(r.mem, r.save, outcome)
       /\ now' = IF r.clock THEN now + 1 ELSE now
       /\ last' = Call("delete", doc_id, r.ret, <<>>, r.save /\ outcome[1] = 0)

\* rebuild_index(); failAt is the surviving document whose embedding raises
Rebuild(failAt, outcome) ==
    /\ failAt <= Len(ActiveDocIds(mem))
    /\ \E r \in {RebuildIndex(mem, failAt)} :
       /\ ~r.save => outcome[1] = 0
       /\ mem' = r.mem
       /\ Persist(r.mem, r.save, outcome)
       /\ now' = now
       /\ last' = Call("rebuild", NoDoc, r.ret, <<>>, r.save /\ outcome[1] = 0)

\* clear_all(): the in-memory reset and the removal of the three files
Clear ==
    /\ mem' = ClearAll(mem)
    /\ disk' = NoFiles
    /\ UNCHANGED now
    /\ last' = Call("clear", NoDoc, TRUE, <<>>, FALSE)

\* save_index(): the public wrapper of _save_index
Save(outcome) ==
    /\ mem' = mem
    /\ Persist(mem, TRUE, outcome)
    /\ now' = now
    /\ last' = Call("save", NoDoc, TRUE, <<>>, outcome[1] = 0)

\* search_similar(query, k, score_threshold)
Search(query, k, score_threshold, embedOK) ==
    /\ UNCHANGED <<mem, disk, now>>
    /\ last' = Call("search", NoDoc, TRUE,
                     SearchSimilar(mem, query, k, score_threshold, embedOK), FALSE)

\* a new process constructs VectorService() over the same directory
Restart ==
    /\ mem' = LoadIndex(disk)
    /\ UNCHANGED <<disk, now>>
    /\ last' = Call("restart", NoDoc, TRUE, <<>>, FALSE)

Next ==
    \/ \E doc_id \in DocIds, post \in Posts, embedOK \in BOOLEAN,
          outcome \in WritesSucceed :
            Add(doc_id, post.text, post.attrs, embedOK, outcome)
    \/ \E doc_id \in DocIds, outcome \in WritesSucceed : Delete(doc_id, outcome)
    \/ \E failAt \in 0..Cardinality(DocIds), outcome \in WritesSucceed :
            Rebuild(failAt, outcome)
    \/ Clear
    \/ \E outcome \in WritesSucceed : Save(outcome)
    \/ \E query \in Queries, k \in Ks, score_threshold \in Thresholds,
          embedOK \in BOOLEAN : Search(query, k, score_threshold, embedOK)
    \/ Restart

Spec == Init /\ [][Next]_vars

----------------------------------------------------------------------------
(* Vocabulary of the properties                                            *)

\* the positions start_index..end_index of a metadata entry
PositionsOf(meta) == meta.start_index..meta.end_index

\* the ranges of the catalogued documents are pairwise disjoint and together
\* cover exactly the positions 0 .. ntotal-1 of the index
RangeInvariant(m) ==
    /\ \A i, j \in 1..Len(m.metadata) :
          i # j => PositionsOf(m.metadata[i].v) \cap PositionsOf(m.metadata[j].v) = {}
    /\ UNION { PositionsOf(m.metadata[i].v) : i \in 1..Len(m.metadata) }
          = 0..(NTotal(m.index) - 1)

\* the doc_ids of a result list, in order
ResultIds(results) == [i \in 1..Len(results) |-> results[i].doc_id]

\* every search a caller can make, with a working embedder
SearchCalls == Queries \X Ks \X Thresholds

SearchOf(m, c) == SearchSimilar(m, c[1], c[2], c[3], TRUE)

\* the documents that are stored and not tombstoned, in the order of the catalog
LiveDocIds(m) == ActiveDocIds(m)

RECURSIVE ChunksBefore(_, _)
ChunksBefore(metadata, i) ==
    IF i <= 1 THEN 0
    ELSE metadata[i - 1].v.chunk_count + ChunksBefore(metadata, i - 1)

----------------------------------------------------------------------------
(* C1  Tombstone visibility: once delete_document(id) has succeeded, no     *)
(* search_similar call returns a result whose doc_id is id, until the next *)
(* rebuild_index.  A document carries the deleted flag exactly from its    *)
(* successful delete to the rebuild that drops it.                         *)
C1_TombstonedNeverReturned ==
    last.op = "search" =>
        \A i \in 1..Len(last.results) : ~IsDeleted(mem, last.results[i].doc_id)

----------------------------------------------------------------------------
(* C2  Range invariant: the initial state satisfies it, and every          *)
(* successful add_document, delete_document and rebuild_index that starts  *)
(* from a state satisfying it ends in a state satisfying it: the ranges of *)
(* the catalogued documents are pairwise disjoint and their union is       *)
(* exactly [0, index.ntotal).                                              *)
C2_RangeInvariantKept ==
    /\ RangeInvariant(mem)
    /\ [][ (/\ last'.op \in {"add", "delete", "rebuild"}
            /\ last'.ret
            /\ RangeInvariant(mem)) => RangeInvariant(mem') ]_vars

\* an insert behind a tombstoned two-chunk document
C2_Witness ==
    /\ last.op = "add" /\ last.saved
    /\ RangeInvariant(mem)
    /\ Len(mem.metadata) >= 2
    /\ NTotal(mem.index) > Len(mem.metadata)
    /\ \E id \in DocIds : IsDeleted(mem, id)

----------------------------------------------------------------------------
(* C3  Dedup invariant: no list returned by search_similar holds two       *)
(* entries with the same doc_id.                                           *)
C3_NoDuplicateDocIds ==
    last.op = "search" =>
        \A i, j \in 1..Len(last.results) :
            i # j => last.results[i].doc_id # last.results[j].doc_id

\* a search that returned two documents, the first of them stored as two chunks
\* which both are among the candidates
C3_Witness ==
    /\ last.op = "search"
    /\ Len(last.results) = 2
    /\ last.results[1].metadata.chunk_count = 2
    /\ NTotal(mem.index) = 3

----------------------------------------------------------------------------
(* C4  rebuild_index is all-or-nothing: when it fails, index, metadata and *)
(* documents are what they were before the call and no file is rewritten.  *)
C4_FailedRebuildChangesNothing ==
    [][ (last'.op = "rebuild" /\ ~last'.ret) => (mem' = mem /\ disk' = disk) ]_vars

----------------------------------------------------------------------------
(* C5  Idempotent upsert: add_document on an id that is stored and not     *)
(* tombstoned returns True and changes nothing: index, ranges, text,       *)
(* chunks and attributes (created_at included) are as before, whatever the *)
(* call carries.                                                           *)
C5_AddExistingIsNoOp ==
    [][ (/\ last'.op = "add"
         /\ DictHas(mem.documents, last'.doc_id)
         /\ ~IsDeleted(mem, last'.doc_id)) => (last'.ret /\ mem' = mem) ]_vars

\* an add that found its id stored and live
C5_Witness ==
    /\ last.op = "add" /\ last.ret /\ ~last.saved
    /\ DictHas(mem.documents, last.doc_id)
    /\ ~IsDeleted(mem, last.doc_id)

----------------------------------------------------------------------------
(* C6  Compaction: after a successful rebuild_index every document that    *)
(* was tombstoned is gone (get_document finds nothing), every live         *)
(* document is still there with the text, chunks and caller attributes it  *)
(* had, the survivors' ranges are contiguous from 0 in catalog order, and  *)
(* index.ntotal is the sum of the survivors' chunk counts.                 *)
C6_Compaction ==
    [][ (last'.op = "rebuild" /\ last'.ret) =>
        /\ \A id \in DocIds : IsDeleted(mem, id) => ~GetDocument(mem', id).found
        /\ \A i \in 1..Len(LiveDocIds(mem)) :
              LET id == LiveDocIds(mem)[i]
              IN /\ GetDocument(mem', id).found
                 /\ GetDocument(mem', id).content = GetDocument(mem, id).content
                 /\ GetDocument(mem', id).chunks = GetDocument(mem, id).chunks
                 /\ DictGet(mem'.metadata, id).attrs = DictGet(mem.metadata, id).attrs
                 /\ mem'.metadata[i].k = id
        /\ Len(mem'.metadata) = Len(LiveDocIds(mem))
        /\ \A i \in 1..Len(mem'.metadata) :
              /\ mem'.metadata[i].v.start_index = ChunksBefore(mem'.metadata, i)
              /\ mem'.metadata[i].v.end_index =
                    ChunksBefore(mem'.metadata, i) + mem'.metadata[i].v.chunk_count - 1
        /\ NTotal(mem'.index) = ChunksBefore(mem'.metadata, Len(mem'.metadata) + 1)
      ]_vars

\* a rebuild that shrank the index and moved a surviving document down to
\* position 0
C6_Witness ==
    /\ last.op = "rebuild" /\ last.ret
    /\ NTotal(mem.index) < last.before
    /\ Len(mem.metadata) >= 1
    /\ mem.metadata[1].v.created_at > 0
    /\ mem.metadata[1].v.start_index = 0

----------------------------------------------------------------------------
----------------------------------------------------------------------------
(* C8  Rebuild idempotence: a successful rebuild_index directly after a    *)
(* successful rebuild_index leaves the index size, every document's range  *)
(* and the result of every search as the first rebuild left them.          *)
C8_SecondRebuildChangesNothing ==
    [][ (last'.op = "rebuild" /\ last'.again /\ last'.ret) =>
        /\ NTotal(mem'.index) = NTotal(mem.index)
        /\ DictKeys(mem'.metadata) = DictKeys(mem.metadata)
        /\ \A id \in DictKeys(mem.metadata) :
              PositionsOf(DictGet(mem'.metadata, id)) = PositionsOf(DictGet(mem.metadata, id))
        /\ \A c \in SearchCalls : SearchOf(mem', c) = SearchOf(mem, c)
      ]_vars

\* the second of two rebuilds in a row, over two documents
C8_Witness ==
    /\ last.op = "rebuild" /\ last.again /\ last.ret
    /\ Len(mem.metadata) >= 2

----------------------------------------------------------------------------
(* C9  Round trip: an add_document(id, text, attrs) that succeeds for an   *)
(* id not in the store makes get_document(id) return the raw input text    *)
(* as content and metadata carrying the caller's attributes.  Stated of    *)
(* the call made in any reachable state with any input.                    *)
C9_AddThenGet ==
    \A id \in DocIds, post \in Posts :
        LET r == AddDocument(mem, id, post.text, post.attrs, now, TRUE)
            got == GetDocument(r.mem, id)
        IN (~DictHas(mem.documents, id) /\ r.ret) =>
              /\ got.found
              /\ got.content = post.text
              /\ Len(got.metadata) = 1
              /\ got.metadata[1].attrs = post.attrs

\* an insert of a text that normalisation changes
C9_Witness ==
    /\ last.op = "add" /\ last.saved
    /\ GetDocument(mem, last.doc_id).found
    /\ GetDocument(mem, last.doc_id).content
          # DictGet(mem.documents, last.doc_id).processed_text

----------------------------------------------------------------------------
(* C10  A failed add leaves no partial mutation: when add_document returns *)
(* False (the embedding raised, or the index rejected the vectors), index, *)
(* metadata, documents and the files are what they were, the id is absent  *)
(* and the same add with a working embedder is a real insert unless the    *)
(* text has no chunk.                                                      *)
C10_FailedAddChangesNothing ==
    [][ (last'.op = "add" /\ ~last'.ret) =>
        /\ mem' = mem
        /\ disk' = disk
        /\ ~DictHas(mem'.documents, last'.doc_id)
        /\ \A post \in Posts :
              \A r \in {AddDocument(mem', last'.doc_id, post.text, post.attrs, now', TRUE)} :
                 r.ret => /\ DictHas(r.mem.documents, last'.doc_id)
                          /\ NTotal(r.mem.index) > NTotal(mem'.index)
      ]_vars

\* a failed add into a store that holds documents
C10_Witness ==
    /\ last.op = "add" /\ ~last.ret
    /\ Len(mem.documents) >= 1

----------------------------------------------------------------------------
(* C11  When embedding the query fails, the outcome of search_similar can  *)
(* be told apart from a successful search with no hits: over a non-empty   *)
(* index (the query is embedded only then) the failing call does not       *)
(* return the empty list a search without hits returns.                    *)
C11_EmbedFailureToldApart ==
    \A c \in SearchCalls :
        NTotal(mem.index) > 0 =>
            SearchSimilar(mem, c[1], c[2], c[3], FALSE) # <<>>

----------------------------------------------------------------------------
(* C12  Every list returned by search_similar(query, k, threshold) has at  *)
(* most k entries, every entry has score >= threshold, and the entries are *)
(* in non-increasing score order.  Stated of every search a caller can     *)
(* make in a reachable state.                                              *)
C12_BoundedFilteredSorted ==
    \A c \in SearchCalls :
        LET results == SearchOf(mem, c)
        IN /\ Len(results) <= c[2]
           /\ \A i \in 1..Len(results) : results[i].score >= c[3]
           /\ \A i, j \in 1..Len(results) : i < j => results[i].score >= results[j].score

----------------------------------------------------------------------------
(* C13  delete_document(id) is a soft delete.  For a known id it returns   *)
(* True and changes only the deleted/deleted_at attributes of that         *)
(* document: the index, every position range, the stored texts and chunks  *)
(* and every other document's entry are unchanged.  For an unknown id it   *)
(* returns False and changes nothing, in memory or on disk.                *)
C13_SoftDelete ==
    [][ last'.op = "delete" =>
        IF DictHas(mem.documents, last'.doc_id)
        THEN /\ last'.ret
             /\ mem'.index = mem.index
             /\ mem'.documents = mem.documents
             /\ Len(mem'.metadata) = Len(mem.metadata)
             /\ \A i \in 1..Len(mem.metadata) :
                   /\ mem'.metadata[i].k = mem.metadata[i].k
                   /\ IF mem.metadata[i].k = last'.doc_id
                      THEN /\ mem'.metadata[i].v.deleted
                           /\ [mem'.metadata[i].v EXCEPT !.deleted = FALSE,
                                                         !.deleted_at = NoTime]
                              = [mem.metadata[i].v EXCEPT !.deleted = FALSE,
                                                          !.deleted_at = NoTime]
                      ELSE mem'.metadata[i] = mem.metadata[i]
        ELSE /\ ~last'.ret
             /\ mem' = mem
             /\ disk' = disk
      ]_vars

\* a delete of one of two catalogued documents
C13_Witness ==
    /\ last.op = "delete" /\ last.ret
    /\ IsDeleted(mem, last.doc_id)
    /\ Len(mem.metadata) >= 2
    /\ \E id \in DocIds : DictHas(mem.metadata, id) /\ ~IsDeleted(mem, id)

----------------------------------------------------------------------------
(* C14  Position stability between rebuilds: an add_document that inserts  *)
(* gives the new document the start_index that was the index size just     *)
(* before the append, and no add_document or delete_document changes the   *)
(* range of a document that is already catalogued.                         *)
C14_PositionsStable ==
    [][ /\ (last'.op = "add" /\ last'.ret /\ ~DictHas(mem.documents, last'.doc_id)) =>
              /\ DictHas(mem'.metadata, last'.doc_id)
              /\ DictGet(mem'.metadata, last'.doc_id).start_index = NTotal(mem.index)
        /\ last'.op \in {"add", "delete"} =>
              \A i \in 1..Len(mem.metadata) :
                 /\ DictHas(mem'.metadata, mem.metadata[i].k)
                 /\ PositionsOf(DictGet(mem'.metadata, mem.metadata[i].k))
                       = PositionsOf(mem.metadata[i].v)
      ]_vars

\* an insert behind a tombstoned document whose vectors are still in the index
C14_Witness ==
    /\ last.op = "add" /\ last.saved
    /\ last.before >= 1
    /\ DictGet(mem.metadata, last.doc_id).start_index = last.before
    /\ \E id \in DocIds : IsDeleted(mem, id)

----------------------------------------------------------------------------
(* The text functions on their own: _preprocess_text and _split_text are   *)
(* pure methods, called here with texts add_document never builds (several *)
(* paragraphs, URLs, e-mail addresses).  The instance is not touched; last *)
(* records the call and what it returned.                                  *)

\* bounds of the exploration
MaxWords == 3
ScenarioChars == 8200

Url == <<"h", "t", "t", "p", ":", "/", "/", "a">>
Email == <<"a", "@", "b", ".", "c", "o">>

\* the texts made of at most n of the given words
RECURSIVE Phrases(_, _)
Phrases(words, n) ==
    IF n = 0 THEN { <<>> }
    ELSE LET shorter == Phrases(words, n - 1)
         IN shorter \cup { x \o w : x \in shorter, w \in words }

\* raw texts handed to _preprocess_text: words, white space, and a URL or an
\* e-mail address on its own or between two spaces
RawTexts ==
    Phrases({ <<"a">>, <<" ">>, <<"\n">>, Url, Email,
              <<" ">> \o Url \o <<" ">>, <<" ">> \o Email \o <<" ">> }, MaxWords)

\* normalised texts handed to _split_text, with small limits
SplitTexts == Phrases({ <<"a", "a">>, <<"b", "b", "b">>, <<"\n">>, <<" ">> }, MaxWords)
SplitLimits == {1, 2} \X {0, 1}

\* Scenario D: two paragraphs of ScenarioChars characters together, the first
\* of them n characters long
ScenarioText(n) ==
    [i \in 1..n |-> "a"] \o <<"\n">> \o [i \in 1..(ScenarioChars - n) |-> "b"]

ScenarioTexts == { ScenarioText(n) : n \in { 100, ScenarioChars \div 4,
                                             ScenarioChars \div 2,
                                             ScenarioChars - 100 } }

TextInit ==
    /\ mem = EmptyMem
    /\ disk = NoFiles
    /\ now = 1
    /\ last = [op |-> "init"]

\* _preprocess_text(text)
Preprocess(text) ==
    /\ last' = [op |-> "preprocess", text |-> text, out |-> PreprocessText(text)]
    /\ UNCHANGED <<mem, disk, now>>

\* _split_text(text, max_tokens, overlap)
Split(text, max_tokens, overlap) ==
    /\ last' = [op |-> "split", text |-> text, max_tokens |-> max_tokens,
                overlap |-> overlap, chunks |-> SplitText(text, max_tokens, overlap)]
    /\ UNCHANGED <<mem, disk, now>>

TextNext ==
    \/ \E text \in RawTexts : Preprocess(text)
    \/ \E text \in SplitTexts, lim \in SplitLimits : Split(text, lim[1], lim[2])
    \/ \E text \in ScenarioTexts : Split(text, DefaultMaxTokens, DefaultOverlap)

TextSpec == TextInit /\ [][TextNext]_vars

\* s begins with p
StartsWith(s, p) == Len(p) <= Len(s) /\ SubSeq(s, 1, Len(p)) = p

\* the last n characters of s (all of s when it is shorter)
Trailing(s, n) == IF Len(s) > n THEN SubSeq(s, Len(s) - n + 1, Len(s)) ELSE s

----------------------------------------------------------------------------
(* C15  Scenario D: for a text of two paragraphs totalling about 2050      *)
(* estimated tokens, _split_text with max_tokens = 512 and overlap = 50    *)
(* returns at least 4 chunks, and each chunk after the first begins with   *)
(* the trailing 200 characters of the chunk before it.                     *)
C15_ScenarioD ==
    (last.op = "split" /\ last.text \in ScenarioTexts
        /\ last.max_tokens = DefaultMaxTokens /\ last.overlap = DefaultOverlap) =>
        /\ Len(last.chunks) >= 4
        /\ \A i \in 1..(Len(last.chunks) - 1) :
              StartsWith(last.chunks[i + 1], Trailing(last.chunks[i], 4 * DefaultOverlap))

----------------------------------------------------------------------------
(* C16  Chunks are bounded: every chunk _split_text(text, max_tokens,      *)
(* overlap) returns has an estimated token count, length / 4, of at most   *)
(* max_tokens, unless the chunk is one single paragraph that is itself     *)
(* longer than max_tokens.                                                 *)
C16_ChunksBounded ==
    last.op = "split" =>
        \A i \in 1..Len(last.chunks) :
            \/ Len(last.chunks[i]) <= 4 * last.max_tokens
            \/ \A j \in 1..Len(last.chunks[i]) : last.chunks[i][j] # "\n"

----------------------------------------------------------------------------
(* The callers of the service: DocumentManager, the migration script and   *)
(* the upload endpoint.  Each probes for the document and inserts it only  *)
(* when the probe finds nothing.                                           *)

\* score_threshold: float = 0.5 of search_similar.  The scores of the model are
\* integers, and an integer is >= 0.5 exactly when it is >= 1.
DefaultScoreThreshold == 1

NoType == "none"

\* DocumentManager.document_exists
DocumentExists(m, doc_id) == GetDocument(m, doc_id).found

\* the outcome of a caller that found the document and inserted nothing
Skipped(m, ret) == [mem |-> m, ret |-> ret, save |-> FALSE, clock |-> FALSE]

\* DifyToFaissMigrator.migrate_single_post
MigrateSinglePost(m, post, now_, embedOK) ==
    IF DocumentExists(m, post.md5) THEN Skipped(m, TRUE)
    ELSE AddDocument(m, post.md5, post.mes,
                     [type |-> post.type, source |-> "migration_from_dify"],
                     now_, embedOK)

\* DocumentManager.sync_posts_to_vector, one turn of its loop
SyncPost(m, post, now_, embedOK) ==
    IF GetDocument(m, post.md5).found THEN Skipped(m, TRUE)
    ELSE AddDocument(m, post.md5, post.mes,
                     [post_type |-> post.type, source |-> "posts_db"],
                     now_, embedOK)

\* the upload endpoint of api/post.py; ret is whether the reply is a message
\* rather than an error
UploadDocument(m, post, now_, embedOK) ==
    IF GetDocument(m, post.md5).found THEN Skipped(m, TRUE)
    ELSE AddDocument(m, post.md5, post.mes,
                     [post_type |-> post.type, source |-> "api_upload"],
                     now_, embedOK)

\* result.get("metadata", {}).get("post_type") == post_type
HasPostType(result, post_type) ==
    /\ "post_type" \in DOMAIN result.metadata.attrs
    /\ result.metadata.attrs.post_type = post_type

\* DocumentManager.search_related_posts; `if post_type:` is false for None and
\* for the empty string
SearchRelatedPosts(m, query, post_type, k, embedOK) ==
    LET results == SearchSimilar(m, query, k * 2, DefaultScoreThreshold, embedOK)
        filtered == IF post_type \notin {NoType, ""}
                    THEN SelectSeq(results, LAMBDA r : HasPostType(r, post_type))
                    ELSE results
    IN SubSeq(filtered, 1, Min(k, Len(filtered)))

\* VectorService.index_exists
IndexExists(d) == "absent" \notin {d.index.st, d.metadata.st, d.documents.st}

\* the posts the callers bring
MigrationPosts ==
    { [md5 |-> "m1", mes |-> <<"a">>, type |-> "t1"],
      [md5 |-> "m2", mes |-> <<"a">>, type |-> "t2"],
      [md5 |-> "m3", mes |-> <<"b", "\n", "b">>, type |-> "t1"] }
SyncPosts == { [md5 |-> "s1", mes |-> <<"a">>, type |-> "t1"] }
UploadPosts == { [md5 |-> "u1", mes |-> <<"a">>, type |-> "t2"] }
\* the post_type argument: None, a type, or the empty string (a request with
\* "post_type=" and the default of add_new_post)
PostTypes == {NoType, "t1", "t2", ""}

\* the tail of a caller's step
Ingest(op, doc_id, r) ==
    /\ mem' = r.mem
    /\ Persist(r.mem, r.save, <<0, FALSE>>)
    /\ now' = IF r.clock THEN now + 1 ELSE now
    /\ last' = Call(op, doc_id, r.ret, <<>>, r.save)

\* migrate_to_faiss.py --force: clear_all() before the first post if a snapshot exists
Force == last.op = "init" /\ IndexExists(disk) /\ Clear

Migrate(post, embedOK) ==
    \E r \in {MigrateSinglePost(mem, post, now, embedOK)} : Ingest("migrate", post.md5, r)

Sync(post, embedOK) ==
    \E r \in {SyncPost(mem, post, now, embedOK)} : Ingest("sync", post.md5, r)

Upload(post, embedOK) ==
    \E r \in {UploadDocument(mem, post, now, embedOK)} : Ingest("upload", post.md5, r)

\* search_related_posts(query, post_type, k)
Related(query, post_type, k, embedOK) ==
    /\ UNCHANGED <<mem, disk, now>>
    /\ last' = [op |-> "related", query |-> query, post_type |-> post_type, k |-> k,
                embedOK |-> embedOK,
                results |-> SearchRelatedPosts(mem, query, post_type, k, embedOK)]

IngestNext ==
    \/ Force
    \/ \E post \in MigrationPosts, embedOK \in BOOLEAN : Migrate(post, embedOK)
    \/ \E post \in SyncPosts, embedOK \in BOOLEAN : Sync(post, embedOK)
    \/ \E post \in UploadPosts, embedOK \in BOOLEAN : Upload(post, embedOK)
    \/ \E query \in Queries, post_type \in PostTypes, k \in Ks, embedOK \in BOOLEAN :
          Related(query, post_type, k, embedOK)

IngestSpec == Init /\ [][IngestNext]_vars

\* the documents that own a stored vector scoring at or above the threshold
\* for the query
QualifyingDocs(m, query, score_threshold) ==
    { m.metadata[i].k : i \in { j \in 1..Len(m.metadata) :
          \E pos \in PositionsOf(m.metadata[j].v) :
              /\ pos < NTotal(m.index)
              /\ Metric(m.index, Embed(query), pos) >= score_threshold } }

----------------------------------------------------------------------------
(* C17  When at least k distinct documents each own a chunk scoring at or  *)
(* above the threshold for the query, search_related_posts(query, k)       *)
(* without a type filter returns exactly k results.                        *)
C17_ExactlyKRelated ==
    (/\ last.op = "related" /\ last.embedOK /\ last.post_type = NoType
     /\ RangeInvariant(mem)
     /\ Cardinality(QualifyingDocs(mem, last.query, DefaultScoreThreshold)) >= last.k)
        => Len(last.results) = last.k

----------------------------------------------------------------------------
(* The catalog listing, with the calls that change what it shows           *)

\* list.sort(key=created_at, reverse=True): a stable sort, entries with equal
\* keys keep their order
RECURSIVE SortByCreatedDesc(_)
SortByCreatedDesc(docs) ==
    IF docs = <<>> THEN <<>>
    ELSE LET first == CHOOSE i \in 1..Len(docs) :
                         \A j \in 1..Len(docs) :
                            \/ docs[j].metadata.created_at < docs[i].metadata.created_at
                            \/ (docs[j].metadata.created_at = docs[i].metadata.created_at
                                /\ i <= j)
         IN <<docs[first]>>
            \o SortByCreatedDesc(SubSeq(docs, 1, first - 1) \o SubSeq(docs, first + 1, Len(docs)))

\* the doc_id/metadata pairs of the entries that are not flagged deleted
ActiveDocs(m) ==
    LET live == SelectSeq(m.metadata, LAMBDA e : ~e.v.deleted)
    IN [i \in 1..Len(live) |-> [doc_id |-> live[i].k, metadata |-> live[i].v]]

\* a slip: the deleted entries listed too
ListDocumentsUnfiltered(m, limit, offset) ==
    LET all == [i \in 1..Len(m.metadata) |->
                   [doc_id |-> m.metadata[i].k, metadata |-> m.metadata[i].v]]
        sorted == SortByCreatedDesc(all)
    IN SubSeq(sorted, offset + 1, Min(offset + limit, Len(sorted)))

\* VectorService.list_documents, limit and offset not negative
ListDocuments(m, limit, offset) ==
    LET sorted == SortByCreatedDesc(ActiveDocs(m))
    IN SubSeq(sorted, offset + 1, Min(offset + limit, Len(sorted)))

Limits == 0..MaxK
Offsets == 0..MaxK

\* list_documents(limit, offset)
List(limit, offset) ==
    /\ UNCHANGED <<mem, disk, now>>
    /\ last' = [op |-> "list", limit |-> limit, offset |-> offset,
                results |-> ListDocuments(mem, limit, offset)]

CatalogNext ==
    \/ \E doc_id \in DocIds, post \in Posts, embedOK \in BOOLEAN,
          outcome \in WritesSucceed :
          Add(doc_id, post.text, post.attrs, embedOK, outcome)
    \/ \E doc_id \in DocIds, outcome \in WritesSucceed : Delete(doc_id, outcome)
    \/ \E failAt \in 0..Cardinality(DocIds), outcome \in WritesSucceed :
          Rebuild(failAt, outcome)
    \/ \E limit \in Limits, offset \in Offsets : List(limit, offset)

CatalogSpec == Init /\ [][CatalogNext]_vars

\* how many live documents list_documents puts before the catalog entry i:
\* those created later, and those created at the same time that stand earlier
\* in the catalog
LiveBefore(m, i) ==
    Cardinality({ j \in 1..Len(m.metadata) :
        /\ ~m.metadata[j].v.deleted
        /\ \/ m.metadata[j].v.created_at > m.metadata[i].v.created_at
           \/ (m.metadata[j].v.created_at = m.metadata[i].v.created_at /\ j < i) })

----------------------------------------------------------------------------
(* C18  list_documents(limit, offset) returns only documents that are not  *)
(* tombstoned, ordered by created_at descending, and the page is exactly   *)
(* the elements offset .. offset+limit-1 of that ordering: entry i of the  *)
(* page is the live document that has offset+i-1 live documents before it. *)
C18_ListPage ==
    last.op = "list" =>
        LET live == { j \in 1..Len(mem.metadata) : ~mem.metadata[j].v.deleted }
            size == Min(last.limit, Cardinality(live) - last.offset)
        IN /\ Len(last.results) = IF size > 0 THEN size ELSE 0
           /\ Len(last.results) <= last.limit
           /\ \A i \in 1..Len(last.results) :
                 /\ ~IsDeleted(mem, last.results[i].doc_id)
                 /\ \E j \in live :
                       /\ mem.metadata[j].k = last.results[i].doc_id
                       /\ mem.metadata[j].v = last.results[i].metadata
                       /\ LiveBefore(mem, j) = last.offset + i - 1
           /\ \A i \in 1..(Len(last.results) - 1) :
                 last.results[i].metadata.created_at
                    >= last.results[i + 1].metadata.created_at

\* a listing of a catalog that holds a tombstoned document and a live one
C18_Witness ==
    /\ last.op = "list"
    /\ Len(last.results) >= 1
    /\ Len(mem.metadata) > Len(last.results)
    /\ \E id \in DocIds : IsDeleted(mem, id)
    /\ last.limit > Len(last.results)

----------------------------------------------------------------------------
(* The probing callers next to delete_document and rebuild_index: posts    *)
(* whose ids are deleted and brought again.                                *)

ProbeIds == {"d1", "d2"}
ProbePosts == { [md5 |-> id, mes |-> <<"a">>, type |-> "t1"] : id \in ProbeIds }

ProbeNext ==
    \/ \E post \in ProbePosts, embedOK \in BOOLEAN : Migrate(post, embedOK)
    \/ \E post \in ProbePosts, embedOK \in BOOLEAN : Sync(post, embedOK)
    \/ \E post \in ProbePosts, embedOK \in BOOLEAN : Upload(post, embedOK)
    \/ \E doc_id \in ProbeIds, outcome \in WritesSucceed : Delete(doc_id, outcome)
    \/ \E failAt \in 0..Cardinality(ProbeIds), outcome \in WritesSucceed :
          Rebuild(failAt, outcome)

ProbeSpec == Init /\ [][ProbeNext]_vars

----------------------------------------------------------------------------
(* C19  Existence checks treat a tombstoned document as existing:          *)
(* get_document(id) and document_exists(id) report it as present in every  *)
(* state, it stays present through every call other than a successful     *)
(* rebuild_index, and each probe-before-insert caller (sync, migration,    *)
(* upload) that meets a tombstoned id skips the insert.                    *)
C19_TombstonedExists ==
    /\ \A id \in DocIds :
          IsDeleted(mem, id) => (GetDocument(mem, id).found /\ DocumentExists(mem, id))
    /\ [][ /\ \A id \in DocIds :
                (IsDeleted(mem, id) /\ ~(last'.op = "rebuild" /\ last'.ret)) =>
                    (IsDeleted(mem', id) /\ GetDocument(mem', id).found
                       /\ DocumentExists(mem', id))
           /\ (last'.op \in {"migrate", "sync", "upload"} /\ IsDeleted(mem, last'.doc_id)) =>
                    (last'.ret /\ ~last'.saved /\ mem' = mem /\ disk' = disk)
         ]_vars

\* the migration meets a tombstoned id and skips it
C19_Witness ==
    /\ last.op = "migrate" /\ last.ret /\ ~last.saved
    /\ IsDeleted(mem, last.doc_id)
    /\ DocumentExists(mem, last.doc_id)

----------------------------------------------------------------------------
(* C20  _preprocess_text is idempotent, normalize(normalize(t)) =          *)
(* normalize(t) for every text t, and its output holds no run of two or    *)
(* more whitespace characters.                                             *)
C20_PreprocessIdempotent ==
    last.op = "preprocess" =>
        /\ PreprocessText(last.out) = last.out
        /\ \A i \in 1..(Len(last.out) - 1) :
              ~(last.out[i] \in WhiteSpace /\ last.out[i + 1] \in WhiteSpace)

----------------------------------------------------------------------------
(* The storage directory with writes that can fail: _save_index stops at   *)
(* the first write that raises, leaving the earlier files new and the      *)
(* later ones as they were; a process that dies inside _save_index leaves  *)
(* the same files, and Restart is the next process.  The writes of         *)
(* add_document and save_index are the ones that fail here.                *)

\* <<the write that fails (0: none), whether it leaves a truncated file>>
SaveOutcomes == { <<0, FALSE>> } \cup ({1, 2, 3} \X BOOLEAN)

FaultNext ==
    \/ \E post \in Posts, embedOK \in BOOLEAN, outcome \in SaveOutcomes :
            Add("d2", post.text, post.attrs, embedOK, outcome)
    \/ \E doc_id \in ProbeIds, outcome \in WritesSucceed : Delete(doc_id, outcome)
    \/ \E outcome \in SaveOutcomes : Save(outcome)
    \/ Restart

FaultSpec == Init /\ [][FaultNext]_vars

\* index, metadata and documents describe the same documents: the ranges
\* cover the index exactly, and both dicts hold the same ids with the same
\* numbers of chunks.  Every state a writer of FaultSpec saves is of this kind.
Coherent(m) ==
    /\ RangeInvariant(m)
    /\ DictKeys(m.metadata) = DictKeys(m.documents)
    /\ \A i \in 1..Len(m.metadata) :
          /\ DictHas(m.documents, m.metadata[i].k)
          /\ m.metadata[i].v.chunk_count
                = Len(DictGet(m.documents, m.metadata[i].k).chunks)

----------------------------------------------------------------------------
(* C21  The three artifacts are loaded together: after construction the    *)
(* index, metadata and documents all come from one completed snapshot or   *)
(* are all empty, never an index of one snapshot with the metadata or      *)
(* documents of another or of none.                                        *)
C21_LoadedTogether ==
    last.op \in {"init", "restart"} => (mem = EmptyMem \/ Coherent(mem))

----------------------------------------------------------------------------
(* C22  A failed snapshot write is reported: save_index() returns True     *)
(* exactly when all three artifacts were written, and the in-memory state  *)
(* is what it was.                                                         *)
C22_FailedSaveReported ==
    [][ last'.op = "save" => ((last'.ret <=> last'.saved) /\ mem' = mem) ]_vars

----------------------------------------------------------------------------
(* Two callers inside add_document on one instance, without a lock (the    *)
(* method takes none).  A caller can be preempted between any two          *)
(* statements, so one call is a sequence of steps over the shared fields:  *)
(* the existence check up to encode(chunks), start_index = index.ntotal,   *)
(* index.add(vectors), the entries of documents and metadata, _save_index. *)
(* The callers and their locals are kept in last.                          *)

Writers == {"w1", "w2"}

\* the id each caller adds: the calls are for different documents
WriterDoc == [w1 |-> "d2", w2 |-> "d3"]

Idle == [pc |-> "idle", post |-> [text |-> <<>>, attrs |-> [post_type |-> NoType]],
         processed_text |-> <<>>, chunks |-> <<>>, start_index |-> 0, ret |-> TRUE]

\* raced: some index.add ran on an index that had grown since its caller read
\* ntotal
RaceInit ==
    /\ disk \in {NoFiles, SeedFiles}
    /\ mem = LoadIndex(disk)
    /\ now = 1
    /\ last = [op |-> "race", raced |-> FALSE, callers |-> [w \in Writers |-> Idle]]

Caller(w) == last.callers[w]

Moved(w, local) == last' = [last EXCEPT !.callers[w] = local]

\* lines 136-147: the existence check, _preprocess_text, _split_text, encode
BeginAdd(w, post, embedOK) ==
    /\ Caller(w).pc = "idle"
    /\ LET processed_text == PreprocessText(post.text)
           chunks == SplitText(processed_text, DefaultMaxTokens, DefaultOverlap)
       IN Moved(w, IF DictHas(mem.documents, WriterDoc[w])
                   THEN [Idle EXCEPT !.pc = "returned", !.ret = TRUE]
                   ELSE IF ~embedOK \/ chunks = <<>>
                   THEN [Idle EXCEPT !.pc = "returned", !.ret = FALSE]
                   ELSE [Idle EXCEPT !.pc = "encoded", !.post = post,
                                     !.processed_text = processed_text,
                                     !.chunks = chunks])
    /\ UNCHANGED <<mem, disk, now>>

\* line 150: start_index = self.index.ntotal
ReadNTotal(w) ==
    /\ Caller(w).pc = "encoded"
    /\ Moved(w, [Caller(w) EXCEPT !.pc = "read", !.start_index = NTotal(mem.index)])
    /\ UNCHANGED <<mem, disk, now>>

\* line 151: self.index.add(vectors)
AppendVectors(w) ==
    /\ Caller(w).pc = "read"
    /\ mem' = [mem EXCEPT !.index = IndexAdd(@, EncodeChunks(Caller(w).chunks))]
    /\ last' = [last EXCEPT
                  !.raced = @ \/ NTotal(mem.index) # Caller(w).start_index,
                  !.callers[w] = [Caller(w) EXCEPT !.pc = "added"]]
    /\ UNCHANGED <<disk, now>>

\* a slip: the range taken from the size of the index when it is recorded
RecordDocumentAtTail(m, doc_id, local, now_) ==
    [StoreDocumentAt(m, doc_id, local.post.text, local.post.attrs, now_,
                     local.processed_text, local.chunks,
                     NTotal(m.index) - Len(local.chunks))
       EXCEPT !.index = m.index]

\* lines 153-172: the entries of documents and metadata, with the start_index
\* the caller read before its vectors went in
RecordDocument(m, doc_id, local, now_) ==
    [StoreDocumentAt(m, doc_id, local.post.text, local.post.attrs, now_,
                     local.processed_text, local.chunks, local.start_index)
       EXCEPT !.index = m.index]

RecordRange(w) ==
    /\ Caller(w).pc = "added"
    /\ now < MaxClock
    /\ mem' = RecordDocument(mem, WriterDoc[w], Caller(w), now)
    /\ now' = now + 1
    /\ Moved(w, [Caller(w) EXCEPT !.pc = "recorded"])
    /\ UNCHANGED disk

\* lines 178-182: _save_index, return True
SaveAndReturn(w) ==
    /\ Caller(w).pc = "recorded"
    /\ disk' = SaveFiles(mem, disk, 0, FALSE)
    /\ Moved(w, [Caller(w) EXCEPT !.pc = "returned", !.ret = TRUE])
    /\ UNCHANGED <<mem, now>>

RaceNext ==
    \E w \in Writers :
       \/ \E post \in Posts, embedOK \in BOOLEAN : BeginAdd(w, post, embedOK)
       \/ ReadNTotal(w)
       \/ AppendVectors(w)
       \/ RecordRange(w)
       \/ SaveAndReturn(w)

RaceSpec == RaceInit /\ [][RaceNext]_vars

\* no caller is inside add_document
Quiescent == \A w \in Writers : Caller(w).pc \in {"idle", "returned"}

\* two catalogued documents recorded with the same start_index
SharedStart(m) ==
    \E i, j \in 1..Len(m.metadata) :
       i # j /\ m.metadata[i].v.start_index = m.metadata[j].v.start_index

----------------------------------------------------------------------------
(* C23  Two unlocked add_document calls for different ids that interleave  *)
(* between reading index.ntotal and recording the range break the range    *)
(* invariant: once both have returned, the ranges cover the index exactly  *)
(* if and only if no index.add ran on an index that had grown since its    *)
(* caller read ntotal, and when one did, two documents are recorded with   *)
(* the same start_index.                                                   *)
C23_RaceBreaksRanges ==
    Quiescent => /\ last.raced <=> ~RangeInvariant(mem)
                 /\ last.raced => SharedStart(mem)

\* both calls returned True after an interleaved read of ntotal
C23_Witness ==
    /\ Quiescent
    /\ last.raced
    /\ \A w \in Writers : Caller(w).pc = "returned" /\ Caller(w).ret
    /\ SharedStart(mem)
    /\ ~RangeInvariant(mem)

----------------------------------------------------------------------------
(* add_document with documents of several paragraphs that together exceed  *)
(* the default max_tokens, next to the short ones.                         *)

\* bound of the exploration: the characters of each paragraph of a long text
ParagraphChars == 1100

\* raw texts of two and of three newline-separated paragraphs, more than
\* 4 * max_tokens characters together
LongPosts ==
    { [text  |-> [i \in 1..ParagraphChars |-> "a"] \o <<"\n">>
                    \o [i \in 1..ParagraphChars |-> "b"],
       attrs |-> [post_type |-> "t1"]],
      [text  |-> [i \in 1..ParagraphChars |-> "a"] \o <<"\n">>
                    \o [i \in 1..ParagraphChars |-> "b"] \o <<"\n", "\n">>
                    \o [i \in 1..ParagraphChars |-> "a"],
       attrs |-> [post_type |-> "t2"]] }

PipelineNext ==
    \/ \E doc_id \in ProbeIds, post \in Posts \cup LongPosts, embedOK \in BOOLEAN,
          outcome \in WritesSucceed :
            Add(doc_id, post.text, post.attrs, embedOK, outcome)
    \/ \E doc_id \in ProbeIds, outcome \in WritesSucceed : Delete(doc_id, outcome)
    \/ \E failAt \in 0..Cardinality(ProbeIds), outcome \in WritesSucceed :
            Rebuild(failAt, outcome)
    \/ Restart

PipelineSpec == Init /\ [][PipelineNext]_vars

\* the estimate _split_text makes of a text's tokens exceeds max_tokens and the
\* text has more than one non-blank paragraph
LongText(text) ==
    /\ Len(text) > 4 * DefaultMaxTokens
    /\ Len(SelectSeq(SplitParagraphs(text), LAMBDA p : Strip(p) # <<>>)) > 1

----------------------------------------------------------------------------
(* C24  A document added through add_document whose raw text has several   *)
(* newline-separated paragraphs that together exceed max_tokens is stored  *)
(* as more than one chunk: its range spans more than one position.         *)
C24_LongDocumentChunked ==
    (last.op = "add" /\ last.ret /\ last.saved
        /\ LongText(DictGet(mem.documents, last.doc_id).text)) =>
        /\ Len(DictGet(mem.documents, last.doc_id).chunks) > 1
        /\ DictGet(mem.metadata, last.doc_id).end_index
              > DictGet(mem.metadata, last.doc_id).start_index

----------------------------------------------------------------------------
(* Searches on states whose index holds positions no range covers: an add  *)
(* whose save stops after faiss_index.bin or after metadata.json, then a   *)
(* new process over the files it left.                                     *)

\* a save that completes, or stops at the second or the third write
InterruptedSaves == { <<0, FALSE>>, <<2, FALSE>>, <<3, FALSE>> }

OrphanNext ==
    \/ \E post \in Posts, embedOK \in BOOLEAN, outcome \in InterruptedSaves :
            Add("d2", post.text, post.attrs, embedOK, outcome)
    \/ \E doc_id \in ProbeIds, outcome \in WritesSucceed : Delete(doc_id, outcome)
    \/ Restart

OrphanSpec == Init /\ [][OrphanNext]_vars

\* the candidates search_similar walks: the hits of index.search
HitsOf(m, c) == IndexSearch(m.index, Embed(c[1]), Min(c[2] * 2, NTotal(m.index)))

\* a hit whose position lies in no catalogued document's range
Orphan(m, hit) == FindDocByIndex(m, hit.idx) = NoDoc

----------------------------------------------------------------------------
(* C25  A hit whose position lies in no catalogued document's range is     *)
(* skipped: search_similar returns what it returns for the other hits, in  *)
(* the same order, and every result names a catalogued document.           *)
C25_OrphanHitsSkipped ==
    \A c \in SearchCalls :
       NTotal(mem.index) > 0 =>
          \A results \in {SearchOf(mem, c)} :
             /\ results
                   = WalkHits(mem, SelectSeq(HitsOf(mem, c), LAMBDA h : ~Orphan(mem, h)),
                              <<>>, {}, c[2], c[3])
             /\ \A i \in 1..Len(results) :
                   /\ results[i].doc_id # NoDoc
                   /\ DictHas(mem.metadata, results[i].doc_id)

\* a search meets a qualifying orphan hit before a hit it returns
C25_Witness ==
    \E c \in SearchCalls :
       /\ SearchOf(mem, c) # <<>>
       /\ \E i, j \in 1..Len(HitsOf(mem, c)) :
             /\ i < j
             /\ Orphan(mem, HitsOf(mem, c)[i])
             /\ HitsOf(mem, c)[i].score >= c[3]
             /\ \E n \in 1..Len(SearchOf(mem, c)) :
                   /\ SearchOf(mem, c)[n].score = HitsOf(mem, c)[j].score
                   /\ FindDocByIndex(mem, HitsOf(mem, c)[j].idx) = SearchOf(mem, c)[n].doc_id

----------------------------------------------------------------------------
(* C26  For every search result, chunk_hit is the chunk of the returned    *)
(* document at ordinal (hit position - start_index), the hit position      *)
(* being the first candidate position the document owns; in every state    *)
(* satisfying the range invariant the ordinal is within the document's     *)
(* chunk list and chunk_hit is not the empty fallback.                     *)
C26_ChunkHitResolved ==
    \A c \in SearchCalls :
       \A n \in 1..Len(SearchOf(mem, c)) :
          LET r      == SearchOf(mem, c)[n]
              hits   == HitsOf(mem, c)
              owned  == { i \in 1..Len(hits) : FindDocByIndex(mem, hits[i].idx) = r.doc_id }
              first  == CHOOSE i \in owned : \A j \in owned : i <= j
              ord    == hits[first].idx - DictGet(mem.metadata, r.doc_id).start_index
              chunks == IF DictHas(mem.documents, r.doc_id)
                        THEN DictGet(mem.documents, r.doc_id).chunks ELSE <<>>
          IN RangeInvariant(mem) =>
                /\ 0 <= ord /\ ord < Len(chunks)
                /\ r.chunk_hit = chunks[ord + 1]
                /\ r.chunk_hit # <<>>

----------------------------------------------------------------------------
(* search_related_posts against the search it filters                      *)

\* s is t with some entries left out, the others in t's order
RECURSIVE IsSubsequence(_, _)
IsSubsequence(s, t) ==
    IF s = <<>> THEN TRUE
    ELSE IF t = <<>> THEN FALSE
    ELSE IF s[1] = t[1] THEN IsSubsequence(Tail(s), Tail(t))
    ELSE IsSubsequence(s, Tail(t))

\* search_similar(query, k = 2k) as search_related_posts calls it
Unfiltered(m, query, k, embedOK) ==
    SearchSimilar(m, query, k * 2, DefaultScoreThreshold, embedOK)

----------------------------------------------------------------------------
(* C27  search_related_posts(query, post_type = t, k) returns at most k     *)
(* results, every one with metadata post_type equal to t, in the relative  *)
(* order of the unfiltered search; with no type given it returns exactly   *)
(* the first k results of search_similar(query, 2k).                       *)
C27_FilteredByType ==
    last.op = "related" =>
        LET all == Unfiltered(mem, last.query, last.k, last.embedOK)
        IN IF last.post_type = NoType
           THEN last.results = SubSeq(all, 1, Min(last.k, Len(all)))
           ELSE /\ Len(last.results) <= last.k
                /\ \A i \in 1..Len(last.results) :
                      HasPostType(last.results[i], last.post_type)
                /\ IsSubsequence(last.results, all)

----------------------------------------------------------------------------
(* C28  After clear_all() the store is equivalent to a freshly constructed *)
(* empty store: the catalog is empty, the index is of the kind of the      *)
(* initial one, and an add_document followed by a search_similar returns   *)
(* what the same calls return on a new store.                              *)
C28_ClearedIsFresh ==
    last.op = "clear" =>
        /\ mem.metadata = <<>> /\ mem.documents = <<>>
        /\ NTotal(mem.index) = 0
        /\ mem.index.kind = EmptyMem.index.kind
        /\ \A doc_id \in DocIds, post \in Posts, c \in SearchCalls :
              SearchOf(AddDocument(mem, doc_id, post.text, post.attrs, now, TRUE).mem, c)
                 = SearchOf(AddDocument(EmptyMem, doc_id, post.text, post.attrs, now,
                                        TRUE).mem, c)

----------------------------------------------------------------------------
(* Two instances over one storage directory: mem is the module-level       *)
(* DocumentManager of the API; update_vector_document_job constructs a     *)
(* DocumentManager of its own, which loads the files, runs                 *)
(* sync_posts_to_vector and is dropped.  Each instance saves its own       *)
(* in-memory state, whole, after every add.                                *)

\* the posts the job finds in the posts database, in the order it reads them
JobPosts ==
    { <<[md5 |-> "s1", mes |-> <<"a">>, type |-> "t1"]>>,
      <<[md5 |-> "s1", mes |-> <<"a">>, type |-> "t1"],
        [md5 |-> "s2", mes |-> <<"b">>, type |-> "t2"]>> }

\* the posts uploaded through the API
ApiPosts ==
    { [md5 |-> "u1", mes |-> <<"a">>, type |-> "t2"],
      [md5 |-> "u2", mes |-> <<"b">>, type |-> "t1"] }

\* sync_posts_to_vector on the job's instance m over directory d
RECURSIVE SyncLoop(_, _, _, _, _)
SyncLoop(m, d, posts, now_, embedOK) ==
    IF posts = <<>> THEN [mem |-> m, disk |-> d, clock |-> now_]
    ELSE LET r == SyncPost(m, posts[1], now_, embedOK)
         IN SyncLoop(r.mem,
                     IF r.save THEN SaveFiles(r.mem, d, 0, FALSE) ELSE d,
                     Tail(posts),
                     IF r.clock THEN now_ + 1 ELSE now_,
                     embedOK)

\* update_vector_document_job: DocumentManager() and sync_posts_to_vector()
SyncJob(posts, embedOK) ==
    \E r \in {SyncLoop(LoadIndex(disk), disk, posts, now, embedOK)} :
       /\ r.clock <= MaxClock
       /\ disk' = r.disk
       /\ now' = r.clock
       /\ mem' = mem
       /\ last' = Call("job", NoDoc, TRUE, <<>>, r.disk # disk)

SharedNext ==
    \/ \E post \in ApiPosts, embedOK \in BOOLEAN : Upload(post, embedOK)
    \/ \E posts \in JobPosts, embedOK \in BOOLEAN : SyncJob(posts, embedOK)
    \/ Restart

SharedSpec == Init /\ [][SharedNext]_vars

\* the ids of the documents of the persisted snapshot
PersistedIds(d) == DictKeys(LoadIndex(d).documents)

----------------------------------------------------------------------------
(* C29  No lost update across instances sharing the storage directory:     *)
(* when the API's instance and the sync job's instance each add a          *)
(* document, the persisted snapshot after both saves contains both; no     *)
(* add of one instance removes a persisted document of the other.          *)
C29_NoLostUpdate ==
    [][ (last'.op \in {"upload", "job"} /\ last'.saved)
            => PersistedIds(disk) \subseteq PersistedIds(disk') ]_vars

----------------------------------------------------------------------------
(* C30  add_document on a tombstoned id that rebuild_index has not yet     *)
(* removed returns True and neither revives nor replaces the document: it  *)
(* stays tombstoned and absent from list_documents, keeps its text and     *)
(* range, and the index size is unchanged.  The id stays tombstoned until  *)
(* a successful rebuild_index; an add inserts only an id the store does    *)
(* not hold, and the document it inserts is live and listed.               *)
C30_TombstonedIdNotRevived ==
    [][ /\ (last'.op = "add" /\ IsDeleted(mem, last'.doc_id)) =>
              /\ last'.ret /\ ~last'.saved
              /\ mem' = mem /\ disk' = disk
              /\ IsDeleted(mem', last'.doc_id)
              /\ \A i \in 1..Len(ActiveDocs(mem')) :
                    ActiveDocs(mem')[i].doc_id # last'.doc_id
              /\ NTotal(mem'.index) = NTotal(mem.index)
        /\ \A id \in DocIds :
              (IsDeleted(mem, id) /\ ~(last'.op = "rebuild" /\ last'.ret)) =>
                  /\ IsDeleted(mem', id)
                  /\ DictGet(mem'.documents, id) = DictGet(mem.documents, id)
        /\ (last'.op = "add" /\ last'.saved) =>
              /\ ~DictHas(mem.documents, last'.doc_id)
              /\ DictHas(mem'.documents, last'.doc_id)
              /\ ~IsDeleted(mem', last'.doc_id)
              /\ \E i \in 1..Len(ActiveDocs(mem')) :
                    ActiveDocs(mem')[i].doc_id = last'.doc_id
      ]_vars

\* an add met a tombstoned id and left it as it was
C30_Witness ==
    /\ last.op = "add" /\ last.ret /\ ~last.saved
    /\ IsDeleted(mem, last.doc_id)
    /\ DictHas(mem.documents, last.doc_id)

====
